---------------------------- MODULE Spec2Model ----------------------------
(* EduManage REST backend: the document store (users, classes, payments,   *)
(* submissions, teaching-evaluations, teacher-applications, assignments)   *)
(* and the route handlers that read it and write to it.                    *)
(* A handler is a sequence of store operations separated by awaits;        *)
(* every store operation is one atomic step, and between two       *)
(* steps of one request any step of another request may happen.            *)
EXTENDS Integers, Sequences, FiniteSets, Bags, TLC

VARIABLES classes, payments, users, submissions, evaluations,
          applications, assignments, created, reqs, started, hist

vars == <<classes, payments, users, submissions, evaluations,
          applications, assignments, created, reqs, started, hist>>

---------------------------------------------------------------------------
(* Bounds of the model *)

\* classes ever created (their _id is 1..MaxClasses, in creation order)
MaxClasses == 1
\* requests handled concurrently
NProcs == 2
\* requests accepted in one run of the concurrent specifications
MaxReqs == 2
\* requests handled in one run of the sequential specifications
MaxCalls == 5

---------------------------------------------------------------------------
(* Values *)

\* a field that is absent from the request body (undefined), or ""
NoVal == ""
\* an absent numeric field (undefined or 0: both are falsy)
NoNum == 0
ClassIds == 1..MaxClasses
Uids == {"s1", "s2"}
\* payment intents known to the provider, with the status it reports
paymentIntents == [pi_1 |-> "succeeded", pi_2 |-> "succeeded",
                   pi_3 |-> "processing", pi_4 |-> "canceled"]
\* payment ids a client may send: the known ones and one the provider
\* does not know (retrieve throws)
PaymentIds == {"pi_1", "pi_2", "pi_3", "pi_4", "pi_x"}
ClassStatuses == {"pending", "approved", "rejected"}

\* the document findOne returns when nothing matches
NoDoc == [status |-> "none", enrolledStudents |-> <<>>]

Includes(seq, x) == \E i \in 1..Len(seq) : seq[i] = x
Count(seq, x) == Cardinality({i \in 1..Len(seq) : seq[i] = x})


---------------------------------------------------------------------------
(* The store and a request being handled *)

\* the collections as one value, so that a handler's step is a function
Store == [classes |-> classes, payments |-> payments, users |-> users,
          submissions |-> submissions, evaluations |-> evaluations,
          applications |-> applications, assignments |-> assignments,
          created |-> created]

\* a request slot that handles nothing
Idle == [op |-> "none", body |-> [none |-> NoVal], pc |-> "idle",
         code |-> 0, message |-> NoVal]

NewReq(op, body) == [op |-> op, body |-> body, pc |-> "begin",
                     code |-> 0, message |-> NoVal]

\* res.status(code).json({message}): the handler returns
Respond(r, code, message) ==
    [r EXCEPT !.pc = "done", !.code = code, !.message = message]

Goto(r, pc) == [r EXCEPT !.pc = pc]

Outcome(S, r) == [S |-> S, r |-> r]

\* new ObjectId(id) throws unless id has the format of an object id
BadId == -1
ObjectIdValid(id) == id # BadId

\* collection.findOne({_id: new ObjectId(id)}) on classes
FindOneClass(S, id) == IF id \in ClassIds THEN S.classes[id] ELSE NoDoc

\* $push: append whether or not the value is there
Push(arr, x) == Append(arr, x)

\* $addToSet: append unless the array holds the value already
AddToSet(arr, x) == IF Includes(arr, x) THEN arr ELSE Append(arr, x)

\* classesCollection.updateOne({_id}, {$addToSet: {enrolledStudents: uid}}):
\* one atomic store operation; it matches nothing if the class is gone
EnrollUpdate(S, id, uid) ==
    IF FindOneClass(S, id) = NoDoc THEN S
    ELSE [S EXCEPT !.classes[id].enrolledStudents = AddToSet(@, uid)]

\* paymentsCollection.findOne({$or: [{stripePaymentIntentId}, {transactionId}]})

\* the pre-check finds nothing
NoExistingPayment(S, id) == FALSE

ExistingPayment(S, id) ==
    \E doc \in BagToSet(S.payments) :
        \/ doc.stripePaymentIntentId = id
        \/ doc.transactionId = id

\* collection.insertOne(doc): a collection is a bag of documents
InsertOne(coll, doc) == coll (+) SetToBag({doc})

InsertOnePayment(S, doc) == [S EXCEPT !.payments = InsertOne(@, doc)]

\* classData.status !== "approved" is false
AnyStatus(classData) == TRUE

Approved(classData) == classData.status = "approved"

\* paymentIntent.status !== "succeeded" is false
AnyIntent(id) == TRUE

Succeeded(id) == paymentIntents[id] = "succeeded"

---------------------------------------------------------------------------
(* POST /process-enrollment *)

PEBegin(r) ==
    LET b == r.body IN
    IF \/ b.paymentIntentId = NoVal \/ b.classId = NoNum
       \/ b.studentUid = NoVal \/ b.amount = NoNum
    THEN Respond(r, 400, "Missing required enrollment fields")
    ELSE IF b.paymentIntentId \notin DOMAIN paymentIntents
    THEN Respond(r, 400, "Unable to verify payment")
    ELSE IF ~Succeeded(b.paymentIntentId)
    THEN Respond(r, 400, "Payment was not successful")
    ELSE Goto(r, "findClass")

PEPaymentDoc(b) ==
    [stripePaymentIntentId |-> b.paymentIntentId,
     transactionId |-> b.paymentIntentId,
     classId |-> b.classId, studentUid |-> b.studentUid,
     amount |-> b.amount, status |-> "completed",
     source |-> "direct_enrollment"]

PEStep(S, r) ==
    LET b == r.body IN
    CASE r.pc = "findClass" ->
           IF ~ObjectIdValid(b.classId)
           THEN Outcome(S, Respond(r, 500, "Enrollment processing failed"))
           ELSE LET classData == FindOneClass(S, b.classId) IN
                IF classData = NoDoc
                THEN Outcome(S, Respond(r, 404, "Class not found"))
                ELSE IF ~Approved(classData)
                THEN Outcome(S, Respond(r, 400,
                                 "Class is not available for enrollment"))
                ELSE IF Includes(classData.enrolledStudents, b.studentUid)
                THEN Outcome(S, Respond(r, 200,
                                 "Student is already enrolled in this class"))
                ELSE Outcome(S, Goto(r, "findPayment"))
      [] r.pc = "findPayment" ->
           IF ExistingPayment(S, b.paymentIntentId)
           THEN Outcome(S, Goto(r, "addToSet"))
           ELSE Outcome(S, Goto(r, "insertPayment"))
      [] r.pc = "insertPayment" ->
           Outcome(InsertOnePayment(S, PEPaymentDoc(b)), Goto(r, "addToSet"))
      [] r.pc = "addToSet" ->
           Outcome(EnrollUpdate(S, b.classId, b.studentUid),
                   Respond(r, 200, "Enrollment completed successfully"))

---------------------------------------------------------------------------
(* POST /payments *)

PayBegin(r) ==
    LET b == r.body IN
    IF \/ b.classId = NoNum \/ b.studentUid = NoVal
       \/ b.amount = NoNum \/ b.transactionId = NoVal
    THEN Respond(r, 400, "Missing required payment fields")
    ELSE Goto(r, "findClass")

\* the document has no stripePaymentIntentId field
PayPaymentDoc(b) ==
    [stripePaymentIntentId |-> NoVal,
     transactionId |-> b.transactionId,
     classId |-> b.classId, studentUid |-> b.studentUid,
     amount |-> b.amount, status |-> "completed",
     source |-> NoVal]

PayStep(S, r) ==
    LET b == r.body IN
    CASE r.pc = "findClass" ->
           IF ~ObjectIdValid(b.classId)
           THEN Outcome(S, Respond(r, 500, "Payment processing failed"))
           ELSE LET classData == FindOneClass(S, b.classId) IN
                IF classData = NoDoc
                THEN Outcome(S, Respond(r, 404, "Class not found"))
                ELSE IF ~Approved(classData)
                THEN Outcome(S, Respond(r, 400,
                                 "Class is not available for enrollment"))
                ELSE IF Includes(classData.enrolledStudents, b.studentUid)
                THEN Outcome(S, Respond(r, 409,
                                 "Student is already enrolled in this class"))
                ELSE Outcome(S, Goto(r, "insertPayment"))
      [] r.pc = "insertPayment" ->
           Outcome(InsertOnePayment(S, PayPaymentDoc(b)), Goto(r, "addToSet"))
      [] r.pc = "addToSet" ->
           Outcome(EnrollUpdate(S, b.classId, b.studentUid),
                   Respond(r, 201, "Payment successful and enrolled in class"))

---------------------------------------------------------------------------
(* POST /classes, PATCH /classes/:id, DELETE /classes/:id: one store      *)
(* operation each                                                          *)

\* a new class is created approved
ApprovedClassDoc(b) ==
    [title |-> b.title, status |-> "approved", enrolledStudents |-> <<>>]

\* of the fields of a class the model keeps the title, the status and the
\* enrolled students; the new class is pending with nobody enrolled
ClassDoc(b) ==
    [title |-> b.title, status |-> "pending", enrolledStudents |-> <<>>]

\* no field is validated
PostClassesBegin(r) == Goto(r, "insertOne")

PostClassesStep(S, r) ==
    Outcome([S EXCEPT !.created = @ + 1,
                      !.classes[S.created + 1] = ClassDoc(r.body)],
            Respond(r, 201, "Class created successfully and awaiting approval"))

PatchClassBegin(r) ==
    IF r.body.status \notin {"approved", "rejected", "pending"}
    THEN Respond(r, 400, "Invalid status")
    ELSE Goto(r, "updateOne")

PatchClassStep(S, r) ==
    LET b == r.body IN
    IF ~ObjectIdValid(b.id)
    THEN Outcome(S, Respond(r, 500, "Internal server error"))
    ELSE IF FindOneClass(S, b.id) = NoDoc
    THEN Outcome(S, Respond(r, 404, "Class not found"))
    ELSE Outcome([S EXCEPT !.classes[b.id].status = b.status],
                 Respond(r, 200, "Class status set successfully"))

DeleteClassBegin(r) == Goto(r, "deleteOne")

DeleteClassStep(S, r) ==
    LET b == r.body IN
    IF ~ObjectIdValid(b.id)
    THEN Outcome(S, Respond(r, 500, "Internal server error"))
    ELSE IF FindOneClass(S, b.id) = NoDoc
    THEN Outcome(S, Respond(r, 404, "Class not found"))
    ELSE Outcome([S EXCEPT !.classes[b.id] = NoDoc],
                 Respond(r, 200, "Class deleted successfully"))


---------------------------------------------------------------------------
(* JavaScript numbers and strings, as far as the rating check uses them.   *)
(* A number is held in tenths (v10), or is NaN; a string is a sequence of  *)
(* characters.                                                             *)

Num(v10) == [nan |-> FALSE, v10 |-> v10]
NotANumber == [nan |-> TRUE, v10 |-> 0]

JNumber(v10) == [type |-> "number", num |-> Num(v10), chars |-> <<>>]
JString(chars) == [type |-> "string", num |-> Num(0), chars |-> chars]
JBoolean(b) == [type |-> "boolean", num |-> Num(IF b THEN 10 ELSE 0), chars |-> <<>>]
JUndefined == [type |-> "undefined", num |-> NotANumber, chars |-> <<>>]

DigitChars == <<"0", "1", "2", "3", "4", "5", "6", "7", "8", "9",
                "a", "b", "c", "d", "e", "f">>

\* the value of a character as a digit of the radix, or -1
DigitValue(ch, radix) ==
    LET hits == {i \in 1..radix : DigitChars[i] = ch}
    IN IF hits = {} THEN -1 ELSE (CHOOSE i \in hits : TRUE) - 1

IsSpace(ch) == ch = " "

RECURSIVE SkipSpaces(_)
SkipSpaces(chars) ==
    IF chars # <<>> /\ IsSpace(Head(chars)) THEN SkipSpaces(Tail(chars)) ELSE chars

RECURSIVE DropTrailingSpaces(_)
DropTrailingSpaces(chars) ==
    IF chars # <<>> /\ IsSpace(chars[Len(chars)])
    THEN DropTrailingSpaces(SubSeq(chars, 1, Len(chars) - 1))
    ELSE chars

Trim(chars) == DropTrailingSpaces(SkipSpaces(chars))

\* how many leading characters are digits of the radix
RECURSIVE DigitPrefix(_, _)
DigitPrefix(chars, radix) ==
    IF chars # <<>> /\ DigitValue(Head(chars), radix) >= 0
    THEN 1 + DigitPrefix(Tail(chars), radix)
    ELSE 0

\* the integer written by a sequence of digits of the radix
RECURSIVE DigitsValue(_, _)
DigitsValue(chars, radix) ==
    IF chars = <<>> THEN 0
    ELSE DigitsValue(SubSeq(chars, 1, Len(chars) - 1), radix) * radix
         + DigitValue(chars[Len(chars)], radix)

StartsWith(chars, a, b) == Len(chars) >= 2 /\ chars[1] = a /\ chars[2] = b

Rest(chars, n) == SubSeq(chars, n + 1, Len(chars))

RECURSIVE Pow10(_)
Pow10(n) == IF n = 0 THEN 1 ELSE 10 * Pow10(n - 1)

\* parseInt(string) with no radix: leading spaces and a sign are skipped,
\* 0x selects radix 16, and the longest prefix of digits is the value;
\* NaN if there is no digit
ParseIntChars(chars) ==
    LET t == SkipSpaces(chars)
        neg == t # <<>> /\ Head(t) = "-"
        u == IF t # <<>> /\ Head(t) \in {"-", "+"} THEN Tail(t) ELSE t
        hex == StartsWith(u, "0", "x")
        radix == IF hex THEN 16 ELSE 10
        d == IF hex THEN Rest(u, 2) ELSE u
        k == DigitPrefix(d, radix)
        v == DigitsValue(SubSeq(d, 1, k), radix)
    IN IF k = 0 THEN NotANumber ELSE Num(10 * (IF neg THEN 0 - v ELSE v))

\* an unsigned decimal literal: digits, an optional fraction, an optional
\* exponent; the value in tenths (further fraction digits are cut)
DecimalLiteral(chars) ==
    LET i == DigitPrefix(chars, 10)
        afterInt == Rest(chars, i)
        dot == afterInt # <<>> /\ Head(afterInt) = "."
        f == IF dot THEN DigitPrefix(Tail(afterInt), 10) ELSE 0
        frac == IF dot THEN SubSeq(Tail(afterInt), 1, f) ELSE <<>>
        afterFrac == IF dot THEN Rest(Tail(afterInt), f) ELSE afterInt
        exp == afterFrac # <<>> /\ Head(afterFrac) = "e"
        x == IF exp THEN DigitPrefix(Tail(afterFrac), 10) ELSE 0
        tail == IF exp THEN Rest(Tail(afterFrac), x) ELSE afterFrac
        e == IF exp THEN DigitsValue(SubSeq(Tail(afterFrac), 1, x), 10) ELSE 0
        tenths == DigitsValue(SubSeq(chars, 1, i), 10) * 10
                  + (IF f > 0 THEN DigitValue(frac[1], 10) ELSE 0)
    IN IF (i = 0 /\ f = 0) \/ (exp /\ x = 0) \/ tail # <<>>
       THEN NotANumber
       ELSE Num(tenths * Pow10(e))

\* a literal with a radix prefix: every character after it is a digit
PrefixedLiteral(chars, radix) ==
    LET d == Rest(chars, 2) IN
    IF d = <<>> \/ DigitPrefix(d, radix) # Len(d) THEN NotANumber
    ELSE Num(10 * DigitsValue(d, radix))

\* Number(string): the whole trimmed string is a numeric literal, else NaN;
\* the empty string is 0
StringToNumber(chars) ==
    LET t == Trim(chars)
        neg == t # <<>> /\ Head(t) = "-"
        u == IF t # <<>> /\ Head(t) \in {"-", "+"} THEN Tail(t) ELSE t
        v == DecimalLiteral(u)
    IN IF t = <<>> THEN Num(0)
       ELSE IF StartsWith(t, "0", "x") THEN PrefixedLiteral(t, 16)
       ELSE IF StartsWith(t, "0", "b") THEN PrefixedLiteral(t, 2)
       ELSE IF StartsWith(t, "0", "o") THEN PrefixedLiteral(t, 8)
       ELSE IF v.nan THEN NotANumber
       ELSE Num(IF neg THEN 0 - v.v10 ELSE v.v10)

\* the decimal digits of a natural number
RECURSIVE NatToChars(_)
NatToChars(n) ==
    IF n < 10 THEN <<DigitChars[n + 1]>>
    ELSE NatToChars(n \div 10) \o <<DigitChars[(n % 10) + 1]>>

\* String(number) for a number that is not negative
NumberToChars(n) ==
    IF n.nan THEN <<"N", "a", "N">>
    ELSE NatToChars(n.v10 \div 10)
         \o (IF n.v10 % 10 = 0 THEN <<>> ELSE <<".", DigitChars[(n.v10 % 10) + 1]>>)

\* String(value)
ToChars(j) ==
    CASE j.type = "string" -> j.chars
      [] j.type = "number" -> NumberToChars(j.num)
      [] j.type = "boolean" ->
           IF j.num.v10 = 10 THEN <<"t", "r", "u", "e">>
           ELSE <<"f", "a", "l", "s", "e">>
      [] j.type = "undefined" -> <<"u", "n", "d", "e", "f", "i", "n", "e", "d">>

\* the number a relational operator compares
ToNumber(j) ==
    IF j.type = "string" THEN StringToNumber(j.chars) ELSE j.num

\* !value
Not(j) ==
    CASE j.type = "string" -> j.chars = <<>>
      [] j.type = "number" -> j.num.nan \/ j.num.v10 = 0
      [] j.type = "boolean" -> j.num.v10 = 0
      [] j.type = "undefined" -> TRUE

\* value < n and value > n: false when the value converts to NaN
LessThan(j, n) == ~ToNumber(j).nan /\ ToNumber(j).v10 < 10 * n
GreaterThan(j, n) == ~ToNumber(j).nan /\ ToNumber(j).v10 > 10 * n

\* parseInt(value): the value is converted to a string first
ParseInt(j) == ParseIntChars(ToChars(j))

---------------------------------------------------------------------------
(* POST /users *)

\* the check for an existing user finds nothing
NoUser(S, uid) == FALSE

\* usersCollection.findOne({uid})
ExistingUser(S, uid) == \E doc \in BagToSet(S.users) : doc.uid = uid

PostUsersBegin(r) ==
    LET b == r.body IN
    IF b.uid = NoVal \/ b.name = NoVal \/ b.email = NoVal
    THEN Respond(r, 400, "Missing required fields: uid, name, email")
    ELSE Goto(r, "findOne")

UserDoc(b) == [uid |-> b.uid, name |-> b.name, email |-> b.email,
               role |-> "student"]

PostUsersStep(S, r) ==
    LET b == r.body IN
    CASE r.pc = "findOne" ->
           IF ExistingUser(S, b.uid)
           THEN Outcome(S, Respond(r, 409, "User already exists"))
           ELSE Outcome(S, Goto(r, "insertOne"))
      [] r.pc = "insertOne" ->
           Outcome([S EXCEPT !.users = InsertOne(@, UserDoc(b))],
                   Respond(r, 201, "User registered successfully"))

---------------------------------------------------------------------------
(* POST /submissions *)

\* the check for an existing submission finds nothing
NoSubmission(S, assignmentId, studentUid) == FALSE

\* submissionsCollection.findOne({assignmentId, studentUid})
ExistingSubmission(S, assignmentId, studentUid) ==
    \E doc \in BagToSet(S.submissions) :
        doc.assignmentId = assignmentId /\ doc.studentUid = studentUid

PostSubmissionsBegin(r) ==
    LET b == r.body IN
    IF \/ b.assignmentId = NoVal \/ b.classId = NoNum
       \/ b.studentUid = NoVal \/ b.submissionText = NoVal
    THEN Respond(r, 400, "Missing required fields")
    ELSE Goto(r, "findOne")

SubmissionDoc(b) ==
    [assignmentId |-> b.assignmentId, classId |-> b.classId,
     studentUid |-> b.studentUid, submissionText |-> b.submissionText,
     status |-> "submitted"]

PostSubmissionsStep(S, r) ==
    LET b == r.body IN
    CASE r.pc = "findOne" ->
           IF ExistingSubmission(S, b.assignmentId, b.studentUid)
           THEN Outcome(S, Respond(r, 409,
                            "You have already submitted this assignment"))
           ELSE Outcome(S, Goto(r, "insertOne"))
      [] r.pc = "insertOne" ->
           Outcome([S EXCEPT !.submissions = InsertOne(@, SubmissionDoc(b))],
                   Respond(r, 201, "Assignment submitted successfully"))

---------------------------------------------------------------------------
(* POST /teaching-evaluations *)

\* teachingEvaluationsCollection.findOne({classId, studentUid})
ExistingEvaluation(S, classId, studentUid) ==
    \E doc \in BagToSet(S.evaluations) :
        doc.classId = classId /\ doc.studentUid = studentUid

\* rating < 1 || rating > 5
RatingOutOfRange(rating) == LessThan(rating, 1) \/ GreaterThan(rating, 5)

PostEvaluationsBegin(r) ==
    LET b == r.body IN
    IF \/ b.classId = NoNum \/ b.teacherUid = NoVal \/ b.studentUid = NoVal
       \/ Not(b.rating) \/ b.description = NoVal
    THEN Respond(r, 400, "Missing required fields")
    ELSE IF RatingOutOfRange(b.rating)
    THEN Respond(r, 400, "Rating must be between 1 and 5")
    ELSE Goto(r, "findOne")

EvaluationDoc(b) ==
    [classId |-> b.classId, teacherUid |-> b.teacherUid,
     studentUid |-> b.studentUid, rating |-> ParseInt(b.rating),
     description |-> b.description]

PostEvaluationsStep(S, r) ==
    LET b == r.body IN
    CASE r.pc = "findOne" ->
           IF ExistingEvaluation(S, b.classId, b.studentUid)
           THEN Outcome(S, Respond(r, 409,
                   "You have already submitted an evaluation for this class"))
           ELSE Outcome(S, Goto(r, "insertOne"))
      [] r.pc = "insertOne" ->
           Outcome([S EXCEPT !.evaluations = InsertOne(@, EvaluationDoc(b))],
                   Respond(r, 201, "Teaching evaluation submitted successfully"))

---------------------------------------------------------------------------
(* POST /teacher-applications, PATCH /teacher-applications/:id: the        *)
(* collection is the sequence of its documents, _id the position           *)

ExistingApplication(S, uid) ==
    \E i \in 1..Len(S.applications) : S.applications[i].uid = uid

PostApplicationsBegin(r) ==
    LET b == r.body IN
    IF \/ b.uid = NoVal \/ b.name = NoVal \/ b.email = NoVal
       \/ b.title = NoVal \/ b.experience = NoVal \/ b.category = NoVal
    THEN Respond(r, 400, "Missing required fields")
    ELSE Goto(r, "findOne")

ApplicationDoc(b) == [uid |-> b.uid, email |-> b.email, status |-> "pending"]

PostApplicationsStep(S, r) ==
    LET b == r.body IN
    CASE r.pc = "findOne" ->
           IF ExistingApplication(S, b.uid)
           THEN Outcome(S, Respond(r, 409,
                            "You have already submitted a teaching application"))
           ELSE Outcome(S, Goto(r, "insertOne"))
      [] r.pc = "insertOne" ->
           Outcome([S EXCEPT !.applications = Append(@, ApplicationDoc(b))],
                   Respond(r, 201, "Teaching application submitted successfully"))

\* every status is accepted
PatchApplicationAnyStatus(r) == Goto(r, "updateOne")

PatchApplicationBegin(r) ==
    IF r.body.status \notin {"approved", "rejected"}
    THEN Respond(r, 400, "Invalid status. Must be 'approved' or 'rejected'")
    ELSE Goto(r, "updateOne")

\* result.matchedCount === 0
NoApplicationMatched(S, id) == id \notin 1..Len(S.applications)

PatchApplicationStep(S, r) ==
    LET b == r.body IN
    IF ~ObjectIdValid(b.id)
    THEN Outcome(S, Respond(r, 500, "Internal server error"))
    ELSE IF NoApplicationMatched(S, b.id)
    THEN Outcome(S, Respond(r, 404, "Application not found"))
    ELSE Outcome([S EXCEPT !.applications[b.id].status = b.status],
                 Respond(r, 200, IF b.status = "approved"
                                 THEN "Application approved successfully"
                                 ELSE "Application rejected successfully"))

---------------------------------------------------------------------------
(* PATCH /users/:uid *)

PatchUserBegin(r) ==
    IF r.body.role \notin {"student", "teacher", "admin"}
    THEN Respond(r, 400, "Invalid role")
    ELSE Goto(r, "updateOne")

UsersMatched(S, uid) == {d \in BagToSet(S.users) : d.uid = uid}

\* usersCollection.updateOne({uid}, {$set: {role}}): one of the documents
\* that match is updated
SetRole(S, uid, role) ==
    LET d == CHOOSE d \in UsersMatched(S, uid) : TRUE IN
    [S EXCEPT !.users = (@ (-) SetToBag({d}))
                        (+) SetToBag({[d EXCEPT !.role = role]})]

PatchUserStep(S, r) ==
    LET b == r.body IN
    IF UsersMatched(S, b.uid) = {}
    THEN Outcome(S, Respond(r, 404, "User not found"))
    ELSE Outcome(SetRole(S, b.uid, b.role),
                 Respond(r, 200, "User role updated successfully"))

---------------------------------------------------------------------------
(* PATCH /classes/:id/content *)

\* a price that the body does not carry
NoPrice == -1

\* !title || price === undefined || !description || !image
PatchContentBegin(r) ==
    LET b == r.body IN
    IF \/ b.title = NoVal \/ b.price = NoPrice
       \/ b.description = NoVal \/ b.image = NoVal
    THEN Respond(r, 400, "Missing required fields")
    ELSE Goto(r, "updateOne")

\* the result of updateOne is not looked at
PatchContentStep(S, r) ==
    LET b == r.body IN
    IF ~ObjectIdValid(b.id)
    THEN Outcome(S, Respond(r, 500, "Internal server error"))
    ELSE Outcome(IF FindOneClass(S, b.id) = NoDoc THEN S
                 ELSE [S EXCEPT !.classes[b.id].title = b.title],
                 Respond(r, 200, "Class updated successfully"))

---------------------------------------------------------------------------
(* POST /assignments *)

PostAssignmentsBegin(r) ==
    LET b == r.body IN
    IF \/ b.classId = NoNum \/ b.teacherUid = NoVal \/ b.title = NoVal
       \/ b.deadline = NoVal \/ b.description = NoVal
    THEN Respond(r, 400, "Missing required fields")
    ELSE Goto(r, "insertOne")

AssignmentDoc(b) ==
    [classId |-> b.classId, teacherUid |-> b.teacherUid, title |-> b.title,
     description |-> b.description]

PostAssignmentsStep(S, r) ==
    Outcome([S EXCEPT !.assignments = InsertOne(@, AssignmentDoc(r.body))],
            Respond(r, 201, "Assignment created successfully"))

---------------------------------------------------------------------------
(* Read routes: one store operation, no write.  A read is the set of the   *)
(* responses the store operation can produce: the order of documents that  *)
(* the sort does not decide is the store's choice.                         *)

\* {$limit: 6}
PopularLimit == 6

\* {$ifNull: ["$enrolledStudents", []]}
IfNull(doc) ==
    IF "enrolledStudents" \in DOMAIN doc THEN doc.enrolledStudents ELSE <<>>

\* {$addFields: {enrollmentCount: {$size: ...}}}
EnrollmentCount(doc) == Len(IfNull(doc))

\* the $match stage lets every class through
MatchAll(S) == {c \in DOMAIN S.classes : S.classes[c] # NoDoc}

\* {$match: {status: "approved"}}
MatchApproved(S) == {c \in DOMAIN S.classes : S.classes[c].status = "approved"}

\* a document of the popular-classes listing
Popular(S, c) ==
    [_id |-> c, status |-> S.classes[c].status,
     enrollmentCount |-> EnrollmentCount(S.classes[c])]

\* the count the listing is sorted by is the least, not the greatest
Least(S, ids) ==
    {c \in ids : \A d \in ids :
        EnrollmentCount(S.classes[c]) <= EnrollmentCount(S.classes[d])}

\* the classes of ids that come first under {$sort: {enrollmentCount: -1}}
Greatest(S, ids) ==
    {c \in ids : \A d \in ids :
        EnrollmentCount(S.classes[c]) >= EnrollmentCount(S.classes[d])}

\* {$sort: {enrollmentCount: -1}}, {$limit: n}: every listing of at most n
\* of the classes ids, greatest count first
RECURSIVE SortLimit(_, _, _)
SortLimit(S, ids, n) ==
    IF n = 0 \/ ids = {} THEN {<<>>}
    ELSE UNION {{<<Popular(S, c)>> \o rest :
                    rest \in SortLimit(S, ids \ {c}, n - 1)} :
                c \in Greatest(S, ids)}

\* GET /popular-classes: classesCollection.aggregate([...]).toArray()
PopularClasses(S) == SortLimit(S, MatchApproved(S), PopularLimit)

\* the responses of a read route
\* every order a cursor may deliver a set of documents in
RECURSIVE Orders(_)
Orders(ids) ==
    IF ids = {} THEN {<<>>}
    ELSE UNION {{<<c>> \o rest : rest \in Orders(ids \ {c})} : c \in ids}

\* find({enrolledStudents: uid, status: "approved"})
\* every class matches that has the student enrolled
EnrolledAnyStatus(S, uid) ==
    {c \in DOMAIN S.classes : Includes(IfNull(S.classes[c]), uid)}

EnrolledApproved(S, uid) ==
    {c \in DOMAIN S.classes : /\ Includes(IfNull(S.classes[c]), uid)
                              /\ S.classes[c].status = "approved"}

\* GET /students/:uid/enrolled-classes; the order (by updatedAt) is left open
EnrolledClasses(S, uid) ==
    {[i \in DOMAIN l |-> [_id |-> l[i], status |-> S.classes[l[i]].status]] :
         l \in Orders(EnrolledApproved(S, uid))}

\* GET /users: find({}), every document (the order is left open: the model
\* gives the collection)
AllUsers(S) == S.users

Read(S, op, body) ==
    CASE op = "GET /popular-classes" ->
           {[code |-> 200, data |-> l] : l \in PopularClasses(S)}
      [] op = "GET /students/:uid/enrolled-classes" ->
           {[code |-> 200, data |-> l] : l \in EnrolledClasses(S, body.uid)}
      [] op = "GET /users" ->
           {[code |-> 200, data |-> AllUsers(S)]}

---------------------------------------------------------------------------
(* A handler from its first line to its response *)

\* the synchronous part before the first store operation
Begin(r) ==
    CASE r.op = "POST /process-enrollment" -> PEBegin(r)
      [] r.op = "POST /payments" -> PayBegin(r)
      [] r.op = "POST /classes" -> PostClassesBegin(r)
      [] r.op = "PATCH /classes/:id" -> PatchClassBegin(r)
      [] r.op = "DELETE /classes/:id" -> DeleteClassBegin(r)
      [] r.op = "POST /users" -> PostUsersBegin(r)
      [] r.op = "POST /submissions" -> PostSubmissionsBegin(r)
      [] r.op = "POST /teaching-evaluations" -> PostEvaluationsBegin(r)
      [] r.op = "POST /teacher-applications" -> PostApplicationsBegin(r)
      [] r.op = "PATCH /teacher-applications/:id" -> PatchApplicationBegin(r)
      [] r.op = "PATCH /users/:uid" -> PatchUserBegin(r)
      [] r.op = "PATCH /classes/:id/content" -> PatchContentBegin(r)
      [] r.op = "POST /assignments" -> PostAssignmentsBegin(r)

\* the next store operation of a request that has not responded yet
Step(S, r) ==
    CASE r.op = "POST /process-enrollment" -> PEStep(S, r)
      [] r.op = "POST /payments" -> PayStep(S, r)
      [] r.op = "POST /classes" -> PostClassesStep(S, r)
      [] r.op = "PATCH /classes/:id" -> PatchClassStep(S, r)
      [] r.op = "DELETE /classes/:id" -> DeleteClassStep(S, r)
      [] r.op = "POST /users" -> PostUsersStep(S, r)
      [] r.op = "POST /submissions" -> PostSubmissionsStep(S, r)
      [] r.op = "POST /teaching-evaluations" -> PostEvaluationsStep(S, r)
      [] r.op = "POST /teacher-applications" -> PostApplicationsStep(S, r)
      [] r.op = "PATCH /teacher-applications/:id" -> PatchApplicationStep(S, r)
      [] r.op = "PATCH /users/:uid" -> PatchUserStep(S, r)
      [] r.op = "PATCH /classes/:id/content" -> PatchContentStep(S, r)
      [] r.op = "POST /assignments" -> PostAssignmentsStep(S, r)

RECURSIVE RunToEnd(_, _)
RunToEnd(S, r) ==
    IF r.pc = "done" THEN Outcome(S, r)
    ELSE LET o == Step(S, r) IN RunToEnd(o.S, o.r)

\* the whole handler with no other request in between
Handle(S, op, body) == RunToEnd(S, Begin(NewReq(op, body)))

\* the store operations of POST /process-enrollment, in program order
PEStoreOps == {"findClass", "findPayment", "insertPayment", "addToSet"}

\* the handler when the store operation at pc `at` throws: the operations
\* before it have taken effect, the catch block responds 500, nothing is
\* rolled back
RECURSIVE RunToFault(_, _, _)
RunToFault(S, r, at) ==
    IF r.pc = "done" THEN Outcome(S, r)
    ELSE IF r.pc = at
    THEN Outcome(S, Respond(r, 500, "Enrollment processing failed"))
    ELSE LET o == Step(S, r) IN RunToFault(o.S, o.r, at)

HandleFault(S, op, body, at) == RunToFault(S, Begin(NewReq(op, body)), at)

\* the handler gets as far as the store operation at pc `at`
RECURSIVE Reaches(_, _, _)
Reaches(S, r, at) ==
    IF r.pc = "done" THEN FALSE
    ELSE IF r.pc = at THEN TRUE
    ELSE LET o == Step(S, r) IN Reaches(o.S, o.r, at)

---------------------------------------------------------------------------
(* verifyJWT and the routes it is registered on *)

\* req.headers.authorization: absent, or its characters; the model keeps a
\* run of characters other than the space as one element
NoHeader == [present |-> FALSE, chars |-> <<>>]
Header(chars) == [present |-> TRUE, chars |-> chars]

\* authorization.split(" "): the pieces between the spaces
RECURSIVE Split(_)
Split(chars) ==
    IF chars = <<>> THEN << <<>> >>
    ELSE IF IsSpace(Head(chars)) THEN << <<>> >> \o Split(Tail(chars))
    ELSE LET rest == Split(Tail(chars))
         IN << <<Head(chars)>> \o Head(rest) >> \o Tail(rest)

Emails == {"e1", "e2"}

\* jwt.sign({email}, JWT_SECRET, {expiresIn: "7d"}): the tokens POST /jwt
\* has issued, for any email asked for
Signed == [tok_e1 |-> "e1", tok_e2 |-> "e2"]

\* jwt.verify(token, JWT_SECRET): err unless the server signed the token
\* and it has not expired
Verify(token) ==
    IF Len(token) = 1 /\ token[1] \in DOMAIN Signed
    THEN [err |-> FALSE, decoded |-> [email |-> Signed[token[1]]]]
    ELSE [err |-> TRUE, decoded |-> [email |-> NoVal]]

\* req.decoded of a request no token was decoded for
NoDecoded == [email |-> NoVal]

\* next(): the handler is called
CallNext(decoded) ==
    [next |-> TRUE, code |-> 0, message |-> NoVal, decoded |-> decoded]

\* return res.status(code).json({message}): the handler is not called
Refuse(code, message) ==
    [next |-> FALSE, code |-> code, message |-> message, decoded |-> NoDecoded]

\* the middleware lets every request through
PassAll(authorization) == CallNext(NoDecoded)

verifyJWT(authorization) ==
    LET pieces == Split(authorization.chars)
    IN IF ~authorization.present \/ authorization.chars = <<>>
       THEN Refuse(401, "No token provided")
       ELSE IF Len(pieces) < 2 \/ pieces[2] = <<>>
       THEN Refuse(401, "No token provided")
       ELSE IF Verify(pieces[2]).err
       THEN Refuse(403, "Invalid token")
       ELSE CallNext(Verify(pieces[2]).decoded)

\* the routes registered with verifyJWT
Guarded ==
    {"POST /teacher-applications", "GET /users/:uid",
     "GET /teacher-applications", "PATCH /teacher-applications/:id",
     "PATCH /users/:uid", "GET /users", "POST /classes", "GET /classes",
     "GET /classes/teacher/:uid", "PATCH /classes/:id", "DELETE /classes/:id",
     "PATCH /classes/:id/content", "GET /classes/:id", "POST /payments",
     "GET /students/:uid/enrolled-classes", "GET /students/:uid/payments",
     "POST /create-payment-intent", "POST /process-enrollment",
     "POST /assignments", "GET /assignments/class/:classId",
     "GET /submissions/class/:classId",
     "GET /submissions/student/:uid/class/:classId",
     "POST /submissions", "POST /teaching-evaluations", "GET /verify-jwt"}

\* the routes registered without it
Open == {"GET /", "POST /jwt", "POST /users", "GET /popular-classes",
         "GET /teaching-evaluations"}

\* the routes that only read the store
ReadRoutes == {"GET /popular-classes", "GET /students/:uid/enrolled-classes",
               "GET /users"}

\* express runs the middleware of the route, then its handler
Gate(op, authorization) ==
    IF op \in Guarded THEN verifyJWT(authorization) ELSE CallNext(NoDecoded)

---------------------------------------------------------------------------
(* Request bodies *)

Amount == 50

PEBody(pid, c, u, a) ==
    [paymentIntentId |-> pid, classId |-> c, studentUid |-> u, amount |-> a]

\* well-formed bodies, and one body for each way of being malformed
PEBodies ==
    {PEBody(pid, c, u, Amount) : pid \in PaymentIds, c \in ClassIds, u \in Uids}
    \cup {PEBody(NoVal, 1, "s1", Amount), PEBody("pi_1", NoNum, "s1", Amount),
          PEBody("pi_1", 1, NoVal, Amount), PEBody("pi_1", 1, "s1", NoNum),
          PEBody("pi_1", BadId, "s1", Amount)}

PayBody(tx, c, u, a) ==
    [transactionId |-> tx, classId |-> c, studentUid |-> u, amount |-> a]

PayBodies ==
    {PayBody(tx, c, u, Amount) : tx \in {"pi_1", "pi_2"}, c \in ClassIds, u \in Uids}
    \cup {PayBody(NoVal, 1, "s1", Amount), PayBody("pi_1", NoNum, "s1", Amount),
          PayBody("pi_1", 1, NoVal, Amount), PayBody("pi_1", 1, "s1", NoNum),
          PayBody("pi_1", BadId, "s1", Amount)}

PatchClassBodies ==
    {[id |-> c, status |-> st] : c \in ClassIds, st \in ClassStatuses}
    \cup {[id |-> 1, status |-> NoVal], [id |-> BadId, status |-> "approved"]}

DeleteClassBodies == {[id |-> c] : c \in ClassIds \cup {BadId}}

NoBody == [none |-> NoVal]

ClassBody(title) == [title |-> title]

UserBody(uid, name, email) == [uid |-> uid, name |-> name, email |-> email]

UserBodies ==
    {UserBody(u, "name", "email") : u \in Uids \cup {NoVal}}
    \cup {UserBody("s1", NoVal, "email"), UserBody("s1", "name", NoVal)}

AssignmentIds == {"a1", "a2"}

SubmissionBody(a, c, u, text) ==
    [assignmentId |-> a, classId |-> c, studentUid |-> u, submissionText |-> text]

SubmissionBodies ==
    {SubmissionBody(a, 1, u, "text") : a \in AssignmentIds, u \in Uids}
    \cup {SubmissionBody(NoVal, 1, "s1", "text"), SubmissionBody("a1", NoNum, "s1", "text"),
          SubmissionBody("a1", 1, NoVal, "text"), SubmissionBody("a1", 1, "s1", NoVal)}

\* ratings a client may send: numbers in and out of the range, with and
\* without a fraction, and values that are not numbers
Ratings ==
    {JNumber(0), JNumber(5), JNumber(10), JNumber(15), JNumber(50),
     JNumber(55), JNumber(60),
     JString(<<"3">>), JString(<<"6">>), JString(<<>>),
     JString(<<"a", "b", "c">>), JString(<<"0", "b", "1", "1">>),
     JString(<<"1", "e", "1">>), JBoolean(TRUE), JUndefined}

EvaluationBody(c, t, u, rating, description) ==
    [classId |-> c, teacherUid |-> t, studentUid |-> u, rating |-> rating,
     description |-> description]

EvaluationBodies ==
    {EvaluationBody(c, "t1", u, rating, "good") :
         c \in ClassIds, u \in Uids, rating \in Ratings}
    \cup {EvaluationBody(NoNum, "t1", "s1", JNumber(30), "good"),
          EvaluationBody(1, NoVal, "s1", JNumber(30), "good"),
          EvaluationBody(1, "t1", NoVal, JNumber(30), "good"),
          EvaluationBody(1, "t1", "s1", JNumber(30), NoVal)}

---------------------------------------------------------------------------
(* State *)

Procs == 1..NProcs

EmptyStore == [classes |-> [c \in ClassIds |-> NoDoc], payments |-> EmptyBag,
               users |-> EmptyBag, submissions |-> EmptyBag,
               evaluations |-> EmptyBag, applications |-> <<>>,
               assignments |-> EmptyBag, created |-> 0]

\* hist.log: the last two calls handled, each with its response and the
\* store it found (pre); hist.calls: how many calls were handled
Init ==
    /\ classes = [c \in ClassIds |-> NoDoc]
    /\ payments = EmptyBag
    /\ users = EmptyBag
    /\ submissions = EmptyBag
    /\ evaluations = EmptyBag
    /\ applications = <<>>
    /\ assignments = EmptyBag
    /\ created = 0
    /\ reqs = [p \in Procs |-> Idle]
    /\ started = 0
    /\ hist = [log |-> <<>>, calls |-> 0]

SetStore(S) ==
    /\ classes' = S.classes
    /\ payments' = S.payments
    /\ users' = S.users
    /\ submissions' = S.submissions
    /\ evaluations' = S.evaluations
    /\ applications' = S.applications
    /\ assignments' = S.assignments
    /\ created' = S.created

CallOf(r, S) == [op |-> r.op, body |-> r.body, code |-> r.code,
                 message |-> r.message, pre |-> S]

LastTwo(log) == IF Len(log) <= 2 THEN log ELSE Tail(log)

---------------------------------------------------------------------------
(* Sequential clients: one call at a time, each handled to its response *)

\* a client calls a route and gets its response
Call(op, body) ==
    /\ \E o \in {Handle(Store, op, body)} :
         /\ SetStore(o.S)
         /\ hist' = [log |-> LastTwo(Append(hist.log, CallOf(o.r, Store))),
                     calls |-> hist.calls + 1]
    /\ UNCHANGED <<reqs, started>>

\* a run makes at most MaxCalls calls
MayCall == hist.calls < MaxCalls

CallProcessEnrollment ==
    /\ MayCall
    /\ \E b \in PEBodies : Call("POST /process-enrollment", b)
CallPayments ==
    /\ MayCall
    /\ \E b \in PayBodies : Call("POST /payments", b)
CallPostClasses ==
    /\ MayCall
    /\ created < MaxClasses
    /\ Call("POST /classes", ClassBody("title"))
CallPatchClass ==
    /\ MayCall
    /\ \E b \in PatchClassBodies : Call("PATCH /classes/:id", b)
CallDeleteClass ==
    /\ MayCall
    /\ \E b \in DeleteClassBodies : Call("DELETE /classes/:id", b)

NextEnrollSeq ==
    \/ CallProcessEnrollment
    \/ CallPayments
    \/ CallPostClasses
    \/ CallPatchClass
    \/ CallDeleteClass

SpecEnrollSeq == Init /\ [][NextEnrollSeq]_vars

CallPostUsers ==
    /\ MayCall
    /\ \E b \in UserBodies : Call("POST /users", b)

SpecUsers == Init /\ [][CallPostUsers]_vars

CallPostSubmissions ==
    /\ MayCall
    /\ \E b \in SubmissionBodies : Call("POST /submissions", b)

SpecSubmissions == Init /\ [][CallPostSubmissions]_vars

\* the log entry of a read: its response carries documents (data), and
\* the store it found is the store it leaves
ReadOf(op, body, resp) ==
    [op |-> op, body |-> body, code |-> resp.code, data |-> resp.data]

\* a client calls a read route and gets its response
CallRead(op, body) ==
    /\ \E resp \in Read(Store, op, body) :
         hist' = [log |-> LastTwo(Append(hist.log, ReadOf(op, body, resp))),
                  calls |-> hist.calls + 1]
    /\ UNCHANGED <<classes, payments, users, submissions, evaluations,
                   applications, assignments, created, reqs, started>>

---------------------------------------------------------------------------
(* GET /popular-classes over the classes collections of MaxListed classes *)

\* classes in the collection when the listing is read
MaxListed == 7

\* the classes a collection may hold: approved with one student, approved
\* with the enrolledStudents field absent, pending, rejected
ListedDocs ==
    {[status |-> "approved", enrolledStudents |-> <<"s1">>],
     [status |-> "approved"],
     [status |-> "pending", enrolledStudents |-> <<"s1", "s2">>],
     [status |-> "rejected", enrolledStudents |-> <<>>]}

InitPopular ==
    /\ classes \in [1..MaxListed -> ListedDocs]
    /\ payments = EmptyBag
    /\ users = EmptyBag
    /\ submissions = EmptyBag
    /\ evaluations = EmptyBag
    /\ applications = <<>>
    /\ assignments = EmptyBag
    /\ created = MaxListed
    /\ reqs = [p \in Procs |-> Idle]
    /\ started = 0
    /\ hist = [log |-> <<>>, calls |-> 0]

\* the listing is read once
GetPopularClasses ==
    /\ hist.calls = 0
    /\ CallRead("GET /popular-classes", NoBody)

SpecPopular == InitPopular /\ [][GetPopularClasses]_vars

---------------------------------------------------------------------------
(* POST /process-enrollment with store errors *)

\* the log entry of a call in which the store operation `at` threw
FaultOf(r, S, at) ==
    [op |-> r.op, body |-> r.body, code |-> r.code, message |-> r.message,
     pre |-> S, fault |-> at]

\* calls handled in one run with store errors
MaxTries == 4

MayTry == hist.calls < MaxTries

TryPostClasses ==
    /\ MayTry
    /\ created < MaxClasses
    /\ Call("POST /classes", ClassBody("title"))
TryPatchClass ==
    /\ MayTry
    /\ \E b \in PatchClassBodies : Call("PATCH /classes/:id", b)
TryPayments ==
    /\ MayTry
    /\ \E b \in PayBodies : Call("POST /payments", b)
TryProcessEnrollment ==
    /\ MayTry
    /\ \E b \in PEBodies : Call("POST /process-enrollment", b)

\* a client calls POST /process-enrollment and the store throws at one of
\* the handler's operations, if the handler gets that far
TryFailingEnrollment ==
    /\ MayTry
    /\ \E b \in PEBodies, at \in PEStoreOps :
         \E o \in {HandleFault(Store, "POST /process-enrollment", b, at)} :
           /\ Reaches(Store, Begin(NewReq("POST /process-enrollment", b)), at)
           /\ SetStore(o.S)
           /\ hist' = [log |-> LastTwo(Append(hist.log, FaultOf(o.r, Store, at))),
                       calls |-> hist.calls + 1]
    /\ UNCHANGED <<reqs, started>>

NextRetry ==
    \/ TryPostClasses
    \/ TryPatchClass
    \/ TryPayments
    \/ TryProcessEnrollment
    \/ TryFailingEnrollment

SpecRetry == Init /\ [][NextRetry]_vars

---------------------------------------------------------------------------
(* The listings among the calls that create, approve and fill a class *)

CallPopularClasses ==
    /\ MayCall
    /\ CallRead("GET /popular-classes", NoBody)
CallEnrolledClasses ==
    /\ MayCall
    /\ \E u \in Uids : CallRead("GET /students/:uid/enrolled-classes", [uid |-> u])

NextListing ==
    \/ CallProcessEnrollment
    \/ CallPayments
    \/ CallPostClasses
    \/ CallPatchClass
    \/ CallDeleteClass
    \/ CallPopularClasses
    \/ CallEnrolledClasses

SpecListing == Init /\ [][NextListing]_vars

---------------------------------------------------------------------------
(* Concurrent clients: requests interleave at their store operations *)

Free(p) == reqs[p] = Idle

\* the slot of a request once it has responded
Release(r) == IF r.pc = "done" THEN Idle ELSE r

\* a request arrives and runs up to the response or, if it has more to do,
\* past its first store operation (what comes before touches no shared state)
Arrive(S, r) == IF r.pc = "done" THEN Outcome(S, r) ELSE Step(S, r)

Start(p, op, body) ==
    /\ Free(p)
    /\ \A q \in Procs : q < p => ~Free(q)
    /\ \E r \in {Begin(NewReq(op, body))} : \E o \in {Arrive(Store, r)} :
         /\ SetStore(o.S)
         /\ reqs' = [reqs EXCEPT ![p] = Release(o.r)]
         /\ started' = IF o.r.pc = "done" THEN started ELSE started + 1
    /\ UNCHANGED hist

\* the store performs the next operation of request p
StoreOp(p) ==
    /\ ~Free(p)
    /\ \E o \in {Step(Store, reqs[p])} :
         /\ SetStore(o.S)
         /\ reqs' = [reqs EXCEPT ![p] = Release(o.r)]
    /\ UNCHANGED <<started, hist>>

\* a handler of one store operation, from request to response
Atomic(op, body) == \E o \in {Handle(Store, op, body)} : SetStore(o.S)

\* a run accepts at most MaxReqs requests that reach the store
MayStart == started < MaxReqs

\* concurrent requests carry one payment id, for any class and student
RacePaymentId == "pi_1"
PEValid == {b \in PEBodies : /\ b.paymentIntentId = RacePaymentId
                             /\ Begin(NewReq("POST /process-enrollment", b)).pc # "done"}
PayValid == {b \in PayBodies : /\ b.transactionId = RacePaymentId
                               /\ Begin(NewReq("POST /payments", b)).pc # "done"}

StartProcessEnrollment ==
    /\ MayStart
    /\ \E p \in Procs, b \in PEValid : Start(p, "POST /process-enrollment", b)
StartPayments ==
    /\ MayStart
    /\ \E p \in Procs, b \in PayValid : Start(p, "POST /payments", b)
PostClasses ==
    /\ created < MaxClasses
    /\ Atomic("POST /classes", ClassBody("title"))
    /\ UNCHANGED <<reqs, started, hist>>
PatchClass ==
    /\ \E c \in ClassIds, st \in ClassStatuses :
           Atomic("PATCH /classes/:id", [id |-> c, status |-> st])
    /\ UNCHANGED <<reqs, started, hist>>
DeleteClass ==
    /\ \E c \in ClassIds : Atomic("DELETE /classes/:id", [id |-> c])
    /\ UNCHANGED <<reqs, started, hist>>
EnrollStoreOp ==
    \E p \in Procs :
        /\ reqs[p].op \in {"POST /process-enrollment", "POST /payments"}
        /\ StoreOp(p)

NextEnroll ==
    \/ StartProcessEnrollment
    \/ StartPayments
    \/ EnrollStoreOp
    \/ PostClasses
    \/ PatchClass
    \/ DeleteClass

SpecEnroll == Init /\ [][NextEnroll]_vars

StartPostEvaluations ==
    /\ MayStart
    /\ \E p \in Procs, b \in EvaluationBodies :
           Start(p, "POST /teaching-evaluations", b)
EvaluationStoreOp ==
    \E p \in Procs :
        /\ reqs[p].op = "POST /teaching-evaluations"
        /\ StoreOp(p)

NextEvaluations ==
    \/ StartPostEvaluations
    \/ EvaluationStoreOp

SpecEvaluations == Init /\ [][NextEvaluations]_vars

\* concurrent registrations: any uid with any email, and the malformed
\* bodies
RaceUserBodies ==
    {UserBody(u, "name", em) : u \in Uids, em \in Emails} \cup UserBodies

StartPostUsers ==
    /\ MayStart
    /\ \E p \in Procs, b \in RaceUserBodies : Start(p, "POST /users", b)
UsersStoreOp ==
    \E p \in Procs :
        /\ reqs[p].op = "POST /users"
        /\ StoreOp(p)

NextUsersRace ==
    \/ StartPostUsers
    \/ UsersStoreOp

SpecUsersRace == Init /\ [][NextUsersRace]_vars

---------------------------------------------------------------------------
(* Clients of the whole API: a request carries an Authorization header,    *)
(* passes the middleware of its route and is handled to its response       *)

\* requests handled in one run
MaxRequests == 3

\* the headers a client may send: none, the empty one, a scheme alone, a
\* scheme and a space, two spaces before the token, tokens the server
\* signed, a token it did not sign or that has expired, another scheme
\* word, a token with no scheme
Headers ==
    {NoHeader, Header(<<>>), Header(<<"Bearer">>), Header(<<"Bearer", " ">>),
     Header(<<"Bearer", " ", " ", "tok_e1">>),
     Header(<<"Bearer", " ", "tok_e1">>), Header(<<"Bearer", " ", "tok_e2">>),
     Header(<<"Bearer", " ", "tok_bad">>),
     Header(<<"Basic", " ", "tok_e1">>), Header(<<"tok_e1">>)}

ApplicationBody(uid, name, email, title, experience, category) ==
    [uid |-> uid, name |-> name, email |-> email, title |-> title,
     experience |-> experience, category |-> category]

ContentBody(id, title, price, description, image) ==
    [id |-> id, title |-> title, price |-> price, description |-> description,
     image |-> image]

AssignmentBody(classId, teacherUid, title, deadline, description) ==
    [classId |-> classId, teacherUid |-> teacherUid, title |-> title,
     deadline |-> deadline, description |-> description]

\* the bodies (with the route parameters) a client sends to a route
BodiesOf(op) ==
    CASE op = "POST /users" ->
           {UserBody("s1", "name", "e1"), UserBody("s1", NoVal, "e1")}
      [] op = "POST /teacher-applications" ->
           {ApplicationBody("s1", "name", "e1", "title", "some", "web"),
            ApplicationBody("s1", "name", "e1", NoVal, "some", "web")}
      [] op = "PATCH /teacher-applications/:id" ->
           {[id |-> 1, status |-> "approved"], [id |-> 1, status |-> "rejected"],
            [id |-> 1, status |-> "pending"]}
      [] op = "PATCH /users/:uid" ->
           {[uid |-> "s1", role |-> "admin"], [uid |-> "s1", role |-> "teacher"],
            [uid |-> "s1", role |-> "owner"]}
      [] op = "POST /classes" -> {ClassBody("title"), ClassBody(NoVal)}
      [] op = "PATCH /classes/:id" ->
           {[id |-> 1, status |-> "approved"], [id |-> 1, status |-> "rejected"]}
      [] op = "DELETE /classes/:id" -> {[id |-> 1]}
      [] op = "PATCH /classes/:id/content" ->
           {ContentBody(1, "title2", 10, "text", "image"),
            ContentBody(1, "title2", NoPrice, "text", "image")}
      [] op = "POST /payments" ->
           {PayBody("pi_1", 1, "s1", Amount), PayBody("pi_1", 1, "s1", NoNum)}
      [] op = "POST /process-enrollment" ->
           {PEBody("pi_1", 1, "s1", Amount), PEBody("pi_1", 1, NoVal, Amount)}
      [] op = "POST /assignments" ->
           {AssignmentBody(1, "t1", "title", "deadline", "text"),
            AssignmentBody(1, "t1", "title", NoVal, "text")}
      [] op = "POST /submissions" ->
           {SubmissionBody("a1", 1, "s1", "text"),
            SubmissionBody("a1", 1, "s1", NoVal)}
      [] op = "POST /teaching-evaluations" ->
           {EvaluationBody(1, "t1", "s1", JNumber(30), "good"),
            EvaluationBody(1, "t1", "s1", JNumber(30), NoVal)}
      [] op = "GET /popular-classes" -> {NoBody}
      [] op = "GET /students/:uid/enrolled-classes" -> {[uid |-> "s1"]}
      [] op = "GET /users" -> {NoBody}

\* the handler of a write route is called with request r: the store it
\* leaves and its response
Written(S, r) ==
    {[S |-> o.S, code |-> o.r.code, message |-> o.r.message, data |-> <<>>] :
         o \in {RunToEnd(S, r)}}

\* the handler of a read route is called
ReadFrom(S, op, body) ==
    {[S |-> S, code |-> resp.code, message |-> NoVal, data |-> resp.data] :
         resp \in Read(S, op, body)}

\* the middleware has responded: the handler is not called
Refused(S, gate) ==
    [S |-> S, code |-> gate.code, message |-> gate.message, data |-> <<>>]

\* the log entry of a request: what was sent, whether the handler was
\* called (next) and with which req.decoded, the response, the store found
RequestOf(op, authorization, body, gate, o, S) ==
    [op |-> op, authorization |-> authorization, body |-> body,
     next |-> gate.next, decoded |-> gate.decoded,
     code |-> o.code, message |-> o.message, data |-> o.data, pre |-> S]

\* a request to a route: its middleware, then its handler, whose possible
\* outcomes are `served`; hist.log holds the last request only
Request(op, authorization, body, served) ==
    /\ \E gate \in {Gate(op, authorization)} :
         \E o \in (IF gate.next THEN served ELSE {Refused(Store, gate)}) :
           /\ SetStore(o.S)
           /\ hist' = [log |-> <<RequestOf(op, authorization, body, gate, o, Store)>>,
                       calls |-> hist.calls + 1]
    /\ UNCHANGED <<reqs, started>>

MayRequest == hist.calls < MaxRequests

ReqPostUsers ==
    /\ MayRequest
    /\ \E h \in Headers, b \in BodiesOf("POST /users") :
         Request("POST /users", h, b,
                 Written(Store, PostUsersBegin(NewReq("POST /users", b))))
ReqPostApplications ==
    /\ MayRequest
    /\ \E h \in Headers, b \in BodiesOf("POST /teacher-applications") :
         Request("POST /teacher-applications", h, b,
                 Written(Store, PostApplicationsBegin(NewReq("POST /teacher-applications", b))))
ReqPatchApplication ==
    /\ MayRequest
    /\ \E h \in Headers, b \in BodiesOf("PATCH /teacher-applications/:id") :
         Request("PATCH /teacher-applications/:id", h, b,
                 Written(Store, PatchApplicationBegin(NewReq("PATCH /teacher-applications/:id", b))))
ReqPatchUser ==
    /\ MayRequest
    /\ \E h \in Headers, b \in BodiesOf("PATCH /users/:uid") :
         Request("PATCH /users/:uid", h, b,
                 Written(Store, PatchUserBegin(NewReq("PATCH /users/:uid", b))))
ReqPostClasses ==
    /\ MayRequest
    /\ created < MaxClasses
    /\ \E h \in Headers, b \in BodiesOf("POST /classes") :
         Request("POST /classes", h, b,
                 Written(Store, PostClassesBegin(NewReq("POST /classes", b))))
ReqPatchClass ==
    /\ MayRequest
    /\ \E h \in Headers, b \in BodiesOf("PATCH /classes/:id") :
         Request("PATCH /classes/:id", h, b,
                 Written(Store, PatchClassBegin(NewReq("PATCH /classes/:id", b))))
ReqDeleteClass ==
    /\ MayRequest
    /\ \E h \in Headers, b \in BodiesOf("DELETE /classes/:id") :
         Request("DELETE /classes/:id", h, b,
                 Written(Store, DeleteClassBegin(NewReq("DELETE /classes/:id", b))))
ReqPatchContent ==
    /\ MayRequest
    /\ \E h \in Headers, b \in BodiesOf("PATCH /classes/:id/content") :
         Request("PATCH /classes/:id/content", h, b,
                 Written(Store, PatchContentBegin(NewReq("PATCH /classes/:id/content", b))))
ReqPayments ==
    /\ MayRequest
    /\ \E h \in Headers, b \in BodiesOf("POST /payments") :
         Request("POST /payments", h, b,
                 Written(Store, PayBegin(NewReq("POST /payments", b))))
ReqProcessEnrollment ==
    /\ MayRequest
    /\ \E h \in Headers, b \in BodiesOf("POST /process-enrollment") :
         Request("POST /process-enrollment", h, b,
                 Written(Store, PEBegin(NewReq("POST /process-enrollment", b))))
ReqPostAssignments ==
    /\ MayRequest
    /\ \E h \in Headers, b \in BodiesOf("POST /assignments") :
         Request("POST /assignments", h, b,
                 Written(Store, PostAssignmentsBegin(NewReq("POST /assignments", b))))
ReqPostSubmissions ==
    /\ MayRequest
    /\ \E h \in Headers, b \in BodiesOf("POST /submissions") :
         Request("POST /submissions", h, b,
                 Written(Store, PostSubmissionsBegin(NewReq("POST /submissions", b))))
ReqPostEvaluations ==
    /\ MayRequest
    /\ \E h \in Headers, b \in BodiesOf("POST /teaching-evaluations") :
         Request("POST /teaching-evaluations", h, b,
                 Written(Store, PostEvaluationsBegin(NewReq("POST /teaching-evaluations", b))))
ReqPopularClasses ==
    /\ MayRequest
    /\ \E h \in Headers, b \in BodiesOf("GET /popular-classes") :
         Request("GET /popular-classes", h, b,
                 ReadFrom(Store, "GET /popular-classes", b))
ReqEnrolledClasses ==
    /\ MayRequest
    /\ \E h \in Headers, b \in BodiesOf("GET /students/:uid/enrolled-classes") :
         Request("GET /students/:uid/enrolled-classes", h, b,
                 ReadFrom(Store, "GET /students/:uid/enrolled-classes", b))
ReqGetUsers ==
    /\ MayRequest
    /\ \E h \in Headers, b \in BodiesOf("GET /users") :
         Request("GET /users", h, b,
                 ReadFrom(Store, "GET /users", b))

NextApi ==
    \/ ReqPostUsers
    \/ ReqPostApplications
    \/ ReqPatchApplication
    \/ ReqPatchUser
    \/ ReqPostClasses
    \/ ReqPatchClass
    \/ ReqDeleteClass
    \/ ReqPatchContent
    \/ ReqPayments
    \/ ReqProcessEnrollment
    \/ ReqPostAssignments
    \/ ReqPostSubmissions
    \/ ReqPostEvaluations
    \/ ReqPopularClasses
    \/ ReqEnrolledClasses
    \/ ReqGetUsers

SpecApi == Init /\ [][NextApi]_vars

---------------------------------------------------------------------------
(* What the claims speak of *)

\* the documents of a collection that pass a test, counted with repeats
CountDocs(coll, Test(_)) ==
    BagCardinality([d \in {x \in BagToSet(coll) : Test(x)} |-> coll[d]])

\* payment records that carry a provider payment id
PaymentsFor(S, id) ==
    LET Has(d) == d.transactionId = id \/ d.stripePaymentIntentId = id
    IN CountDocs(S.payments, Has)

\* payment records of one enrollment: a payment id, a class, a student
PaymentsOf(S, id, c, u) ==
    LET Is(d) == /\ d.transactionId = id \/ d.stripePaymentIntentId = id
                 /\ d.classId = c /\ d.studentUid = u
    IN CountDocs(S.payments, Is)

EnrolledTimes(S, c, u) == Count(FindOneClass(S, c).enrolledStudents, u)

Quiescent == \A p \in Procs : Free(p)

\* the last call handled and the one before it
Last == hist.log[Len(hist.log)]
Prev == hist.log[Len(hist.log) - 1]

Called(op) == Len(hist.log) >= 1 /\ Last.op = op

\* the same request was made twice in a row
Twice(op) ==
    /\ Len(hist.log) = 2
    /\ Prev.op = op /\ Last.op = op
    /\ Prev.body = Last.body

\* an enrollment request with every field present and a payment the
\* provider reports as succeeded, for a class that exists and is approved
ValidEnrollment(e) ==
    /\ e.body.paymentIntentId \in DOMAIN paymentIntents
    /\ paymentIntents[e.body.paymentIntentId] = "succeeded"
    /\ e.body.studentUid # NoVal /\ e.body.amount # NoNum
    /\ e.body.classId \in ClassIds
    /\ e.pre.classes[e.body.classId].status = "approved"

---------------------------------------------------------------------------
(* C1 *)

\* C1 as stated: after two POST /process-enrollment calls in sequence with
\* the same payment id, class and student, each a valid enrollment request,
\* exactly one payment record has that payment id and the student is in
\* enrolledStudents exactly once.
C1_TwiceExactlyOneRecord ==
    (Twice("POST /process-enrollment") /\ ValidEnrollment(Prev)) =>
        /\ PaymentsFor(Store, Last.body.paymentIntentId) = 1
        /\ EnrolledTimes(Store, Last.body.classId, Last.body.studentUid) = 1

\* C1 amended: after the two calls both have succeeded, the second has
\* changed neither the payments nor the class, the student is in
\* enrolledStudents exactly once, and the two calls inserted exactly one
\* record for the payment id if before the first call the student was not
\* enrolled and no record had the id, and no record otherwise.
C1_TwiceIdempotent ==
    (Twice("POST /process-enrollment") /\ ValidEnrollment(Prev)) =>
        LET id == Last.body.paymentIntentId
            c == Last.body.classId
            u == Last.body.studentUid
            fresh == /\ EnrolledTimes(Prev.pre, c, u) = 0
                     /\ PaymentsFor(Prev.pre, id) = 0
        IN /\ Prev.code = 200 /\ Last.code = 200
           /\ Store = Last.pre
           /\ EnrolledTimes(Store, c, u) = 1
           /\ PaymentsFor(Store, id) =
                  PaymentsFor(Prev.pre, id) + (IF fresh THEN 1 ELSE 0)
           /\ BagCardinality(payments) =
                  BagCardinality(Prev.pre.payments) + (IF fresh THEN 1 ELSE 0)

\* the two calls of C1, the first of which enrolled the student and
\* recorded the payment
C1_Witness ==
    /\ Twice("POST /process-enrollment") /\ ValidEnrollment(Prev)
    /\ EnrolledTimes(Prev.pre, Last.body.classId, Last.body.studentUid) = 0
    /\ PaymentsFor(Prev.pre, Last.body.paymentIntentId) = 0
    /\ PaymentsFor(Store, Last.body.paymentIntentId) = 1

---------------------------------------------------------------------------
(* C2 *)

\* C2: once every request has responded, no two payment records inserted
\* by POST /process-enrollment carry the same payment id, class and student
\* (two requests with the same body leave one record), and the student is
\* enrolled once.
C2_ConcurrentOneRecord ==
    Quiescent =>
        \A id \in PaymentIds, c \in ClassIds, u \in Uids :
            /\ CopiesIn(PEPaymentDoc(PEBody(id, c, u, Amount)), payments) <= 1
            /\ EnrolledTimes(Store, c, u) <= 1

---------------------------------------------------------------------------
(* C3 *)

\* C3: in every state the payments collection holds at most one completed
\* record per provider payment id.
C3_OneRecordPerPaymentId ==
    \A id \in PaymentIds : PaymentsFor(Store, id) <= 1

---------------------------------------------------------------------------
(* C4 *)

\* C4: in every state, under any interleaving of POST /payments and
\* POST /process-enrollment requests, no uid is in a class's
\* enrolledStudents more than once.
C4_NoDuplicateEnrollment ==
    \A c \in ClassIds, u \in Uids : EnrolledTimes(Store, c, u) <= 1

\* two requests for one student and class have both recorded a payment and
\* both run their set-add, and the student is enrolled once
C4_Witness ==
    /\ Quiescent
    /\ \E c \in ClassIds, u \in Uids :
           /\ PaymentsOf(Store, RacePaymentId, c, u) = 2
           /\ EnrolledTimes(Store, c, u) = 1


---------------------------------------------------------------------------
(* C5 *)

EnrollmentOps == {"POST /process-enrollment", "POST /payments"}

PaymentIdOf(e) ==
    IF e.op = "POST /process-enrollment" THEN e.body.paymentIntentId
    ELSE e.body.transactionId

\* the last call was an enrollment request with every field present, for a
\* class that was pending when the call was made
PendingCase ==
    /\ Len(hist.log) >= 1
    /\ Last.op \in EnrollmentOps
    /\ PaymentIdOf(Last) # NoVal
    /\ Last.body.studentUid # NoVal /\ Last.body.amount # NoNum
    /\ Last.body.classId \in ClassIds
    /\ Last.pre.classes[Last.body.classId].status = "pending"

NotAvailable == "Class is not available for enrollment"

\* C5 as stated: an enrollment request for a pending class fails with the
\* not-available error whatever the state of the payment, and changes
\* neither the payments nor the class.
C5_PendingNotAvailable ==
    PendingCase =>
        /\ Last.code = 400 /\ Last.message = NotAvailable
        /\ Store = Last.pre

\* C5 amended: an enrollment request for a pending class fails with 400
\* and changes nothing; the error is not-available for POST /payments and
\* for POST /process-enrollment with a succeeded payment, and the payment
\* error (checked first) when the payment is not succeeded or unverifiable.
C5_PendingNeverEnrolls ==
    PendingCase =>
        /\ Last.code = 400
        /\ Store = Last.pre
        /\ Last.message =
             IF Last.op = "POST /payments" THEN NotAvailable
             ELSE IF PaymentIdOf(Last) \notin DOMAIN paymentIntents
                  THEN "Unable to verify payment"
             ELSE IF paymentIntents[PaymentIdOf(Last)] # "succeeded"
                  THEN "Payment was not successful"
             ELSE NotAvailable

\* a POST /process-enrollment with a succeeded payment met a pending class
C5_Witness ==
    /\ PendingCase
    /\ Last.op = "POST /process-enrollment"
    /\ Last.message = NotAvailable

---------------------------------------------------------------------------
(* C6 *)

\* the last call was a POST /process-enrollment with every field present
\* whose payment the provider reports in a state other than succeeded
NotSucceededCase ==
    /\ Called("POST /process-enrollment")
    /\ Last.body.studentUid # NoVal /\ Last.body.amount # NoNum
    /\ Last.body.classId # NoNum
    /\ Last.body.paymentIntentId \in DOMAIN paymentIntents
    /\ paymentIntents[Last.body.paymentIntentId] # "succeeded"

\* C6: when the provider reports the payment in a state other than
\* succeeded, POST /process-enrollment fails with the
\* payment-not-successful error, inserts no payment record and changes no
\* class.
C6_NotSucceededNoMutation ==
    NotSucceededCase =>
        /\ Last.code = 400 /\ Last.message = "Payment was not successful"
        /\ Store = Last.pre

\* such a call for an approved class in which the student is not enrolled
C6_Witness ==
    /\ NotSucceededCase
    /\ Last.body.classId \in ClassIds
    /\ Last.pre.classes[Last.body.classId].status = "approved"
    /\ EnrolledTimes(Last.pre, Last.body.classId, Last.body.studentUid) = 0

---------------------------------------------------------------------------
(* C7 *)

UsersWith(S, uid) ==
    LET Is(d) == d.uid = uid IN CountDocs(S.users, Is)

\* the last two calls were registrations, with every required field, of
\* one uid
SameUidTwice ==
    /\ Len(hist.log) = 2
    /\ Prev.op = "POST /users" /\ Last.op = "POST /users"
    /\ Prev.body.uid # NoVal /\ Prev.body.uid = Last.body.uid
    /\ \A e \in {Prev, Last} : e.body.name # NoVal /\ e.body.email # NoVal

\* C7: when the same uid is registered twice in sequence, the second call
\* returns 409 and leaves the number of user documents as it was.
C7_SecondRegistrationConflicts ==
    SameUidTwice =>
        /\ Last.code = 409
        /\ BagCardinality(users) = BagCardinality(Last.pre.users)
        /\ UsersWith(Store, Last.body.uid) = 1

\* the first of the two calls registered the uid
C7_Witness == SameUidTwice /\ Prev.code = 201

---------------------------------------------------------------------------
(* C8 *)

SubmissionsOf(S, a, u) ==
    LET Is(d) == d.assignmentId = a /\ d.studentUid = u
    IN CountDocs(S.submissions, Is)

\* the last two calls were submissions, with every required field, of one
\* student for one assignment
SameSubmissionTwice ==
    /\ Len(hist.log) = 2
    /\ Prev.op = "POST /submissions" /\ Last.op = "POST /submissions"
    /\ Prev.body.assignmentId # NoVal /\ Prev.body.studentUid # NoVal
    /\ Prev.body.assignmentId = Last.body.assignmentId
    /\ Prev.body.studentUid = Last.body.studentUid
    /\ \A e \in {Prev, Last} :
           e.body.classId # NoNum /\ e.body.submissionText # NoVal

\* C8: when the same (assignmentId, studentUid) is submitted twice in
\* sequence, the second call returns 409 and exactly one submission of the
\* pair is stored.
C8_SecondSubmissionConflicts ==
    SameSubmissionTwice =>
        /\ Last.code = 409
        /\ SubmissionsOf(Store, Last.body.assignmentId, Last.body.studentUid) = 1
        /\ submissions = Last.pre.submissions

\* the first of the two calls stored the submission
C8_Witness == SameSubmissionTwice /\ Prev.code = 201

---------------------------------------------------------------------------
(* C9 *)

EvaluationsOf(S, c, u) ==
    LET Is(d) == d.classId = c /\ d.studentUid = u
    IN CountDocs(S.evaluations, Is)

\* C9: in every state, under any interleaving of POST /teaching-evaluations
\* requests, at most one evaluation is stored per (classId, studentUid).
C9_OneEvaluationPerPair ==
    \A c \in ClassIds, u \in Uids : EvaluationsOf(Store, c, u) <= 1

---------------------------------------------------------------------------
(* C10 *)

\* C10: every stored evaluation has a rating in 1..5 (a request whose
\* rating is outside the range is rejected and creates no document).
C10_StoredRatingInRange ==
    \A d \in BagToSet(evaluations) :
        ~d.rating.nan /\ d.rating.v10 \in {10, 20, 30, 40, 50}

---------------------------------------------------------------------------
(* C11 *)

\* the last call was a GET /popular-classes
Listed == Called("GET /popular-classes")

\* C11: GET /popular-classes returns at most 6 classes, every one with
\* status "approved", in non-increasing order of the number of enrolled
\* students (no enrolledStudents field counting as 0); every class it
\* returns is approved in the store, with that many students.
C11_PopularClasses ==
    Listed =>
        LET l == Last.data IN
        /\ Len(l) <= 6
        /\ \A i \in 1..Len(l) :
              /\ l[i].status = "approved"
              /\ classes[l[i]._id].status = "approved"
              /\ l[i].enrollmentCount =
                     IF "enrolledStudents" \in DOMAIN classes[l[i]._id]
                     THEN Len(classes[l[i]._id].enrolledStudents)
                     ELSE 0
        /\ \A i, j \in 1..Len(l) :
              i < j => l[i].enrollmentCount >= l[j].enrollmentCount
        /\ \A i, j \in 1..Len(l) : i # j => l[i]._id # l[j]._id

\* a listing cut to 6 of 7 approved classes, with and without students
\* and with and without the field
C11_Witness ==
    /\ Listed
    /\ Len(Last.data) = 6
    /\ \A c \in DOMAIN classes : classes[c].status = "approved"
    /\ \E i, j \in 1..6 : Last.data[i].enrollmentCount > Last.data[j].enrollmentCount
    /\ \E c \in DOMAIN classes :
           "enrolledStudents" \notin DOMAIN classes[c]


(* C12 *)

\* the header carries no token, or one that fails verification
NoToken(h) == \/ ~h.present
              \/ Len(Split(h.chars)) < 2
              \/ Split(h.chars)[2] = <<>>
BadToken(h) == ~NoToken(h) /\ Split(h.chars)[2] \notin {<<"tok_e1">>, <<"tok_e2">>}

\* C12: on every guarded route, a request with no Authorization header or
\* no token after the scheme word is answered 401 and one whose token fails
\* verification 403; the handler is not called and the store is unchanged
C12_GateRefuses ==
    (Len(hist.log) = 1 /\ Last.op \in Guarded) =>
        /\ NoToken(Last.authorization) =>
              /\ Last.code = 401 /\ Last.message = "No token provided"
              /\ ~Last.next /\ Store = Last.pre
        /\ BadToken(Last.authorization) =>
              /\ Last.code = 403 /\ Last.message = "Invalid token"
              /\ ~Last.next /\ Store = Last.pre

\* a well-formed write to a guarded route was refused for each reason, in a
\* store the handler would have changed
C12_Witness ==
    /\ Len(hist.log) = 1
    /\ Last.op = "PATCH /classes/:id"
    /\ Last.authorization = Header(<<"Bearer", " ", "tok_bad">>)
    /\ Last.code = 403
    /\ Handle(Store, Last.op, Last.body).S # Store


(* C13 *)

\* the read routes the token is not required on
PublicReads == {"GET /users", "GET /users/:uid", "GET /teaching-evaluations",
                "GET /popular-classes"}

\* C13: on every route that writes to the store, and on every read route
\* other than the public reads, the handler runs only after the gate has
\* accepted a token
C13_HandlerAfterToken ==
    (Len(hist.log) = 1 /\ Last.op \notin PublicReads /\ Last.next) =>
        Last.decoded # NoDecoded


(* C14 *)

AdminRoutes == {"PATCH /teacher-applications/:id", "PATCH /classes/:id",
                "PATCH /users/:uid"}

\* the caller (the email of the token) has a user document with role admin
IsAdmin(S, email) ==
    \E d \in BagToSet(S.users) : d.email = email /\ d.role = "admin"

\* the application statuses, the class statuses and the user roles
Statuses(S) ==
    [applications |-> [i \in DOMAIN S.applications |-> S.applications[i].status],
     classes |-> [c \in DOMAIN S.classes |-> S.classes[c].status],
     users |-> S.users]

\* C14: PATCH /teacher-applications/:id, PATCH /classes/:id and
\* PATCH /users/:uid by a caller whose stored role is not admin change no
\* application status, no class status and no user role
C14_OnlyAdminsChange ==
    (/\ Len(hist.log) = 1
     /\ Last.op \in AdminRoutes
     /\ ~IsAdmin(Last.pre, Last.decoded.email)) =>
        Statuses(Store) = Statuses(Last.pre)


(* C15 *)

Listings == {"GET /popular-classes", "GET /students/:uid/enrolled-classes"}

\* the call just handled created class c
CreatedBy(c) ==
    /\ hist'.log[Len(hist'.log)].op = "POST /classes"
    /\ created' = c /\ created = c - 1

\* the call just handled is a PATCH /classes/:id that set class c approved
ApprovedBy(c) ==
    /\ hist'.log[Len(hist'.log)].op = "PATCH /classes/:id"
    /\ hist'.log[Len(hist'.log)].body = [id |-> c, status |-> "approved"]
    /\ hist'.log[Len(hist'.log)].code = 200

\* C15: a class created by POST /classes starts pending with nobody
\* enrolled; a class becomes approved only by a PATCH /classes/:id that
\* sets it approved; and the two listings return approved classes only, so
\* a created class is in no listing before such a PATCH
C15_PendingUntilApproved ==
    /\ [](Called("GET /popular-classes") \/ Called("GET /students/:uid/enrolled-classes")
            => \A i \in DOMAIN Last.data :
                  /\ Last.data[i].status = "approved"
                  /\ classes[Last.data[i]._id].status = "approved")
    /\ [][\A c \in ClassIds :
            /\ CreatedBy(c) => classes'[c] = [title |-> classes'[c].title,
                                              status |-> "pending",
                                              enrolledStudents |-> <<>>]
            /\ (classes'[c].status = "approved" /\ classes[c].status # "approved")
                  => ApprovedBy(c)]_vars

\* a listing was read while the class POST /classes created was still
\* pending, and returned nothing
C15_Witness ==
    /\ Len(hist.log) = 2
    /\ Prev.op = "POST /classes" /\ Prev.code = 201
    /\ Last.op \in Listings
    /\ classes[1].status = "pending"
    /\ Last.data = <<>>


(* C16 *)

\* the fields of the body each create/update handler needs (of the fields
\* of a class, the ones the model keeps)
RequiredFields(op) ==
    CASE op = "POST /users" -> {"uid", "name", "email"}
      [] op = "POST /teacher-applications" ->
           {"uid", "name", "email", "title", "experience", "category"}
      [] op = "POST /classes" -> {"title"}
      [] op = "POST /assignments" ->
           {"classId", "teacherUid", "title", "deadline", "description"}
      [] op = "POST /submissions" ->
           {"assignmentId", "classId", "studentUid", "submissionText"}
      [] op = "POST /teaching-evaluations" ->
           {"classId", "teacherUid", "studentUid", "description"}
      [] op = "POST /payments" ->
           {"classId", "studentUid", "amount", "transactionId"}
      [] op = "POST /process-enrollment" ->
           {"paymentIntentId", "classId", "studentUid", "amount"}
      [] op = "PATCH /classes/:id/content" ->
           {"title", "price", "description", "image"}
      [] OTHER -> {}

\* the value a field has when the body does not carry it
Absent(f) ==
    CASE f \in {"classId", "amount"} -> NoNum
      [] f = "price" -> NoPrice
      [] OTHER -> NoVal

LacksField(op, body) == \E f \in RequiredFields(op) : body[f] = Absent(f)

\* C16: a request to a create/update handler that lacks a required field
\* is answered 400 and writes nothing to the store
C16_MissingFieldRejected ==
    (/\ Len(hist.log) = 1
     /\ Last.next
     /\ LacksField(Last.op, Last.body)) =>
        Last.code = 400 /\ Store = Last.pre


(* C17 *)

\* the document the request selects by id is not in the store
NoMatch(S, op, body) ==
    CASE op = "PATCH /teacher-applications/:id" -> body.id \notin DOMAIN S.applications
      [] op = "PATCH /users/:uid" ->
           \A d \in BagToSet(S.users) : d.uid # body.uid
      [] op \in {"PATCH /classes/:id", "PATCH /classes/:id/content",
                 "DELETE /classes/:id"} ->
           body.id \notin DOMAIN S.classes \/ S.classes[body.id] = NoDoc
      [] OTHER -> FALSE

\* C17: an update or delete by id that matches no document never reports
\* success, and reports 404 when the body passes the validation
C17_NotFound ==
    (/\ Len(hist.log) = 1
     /\ Last.next
     /\ NoMatch(Last.pre, Last.op, Last.body)) =>
        /\ Last.code # 200
        /\ Begin(NewReq(Last.op, Last.body)).pc # "done" => Last.code = 404


(* C18 *)

\* the call before the last one failed with a store error at the set-add,
\* after it had inserted the payment record, and the last call repeats it
\* without a store error
RetriedAfterPartialFailure ==
    /\ Twice("POST /process-enrollment")
    /\ "fault" \in DOMAIN Prev /\ "fault" \notin DOMAIN Last
    /\ Prev.fault = "addToSet" /\ Prev.code = 500
    /\ PaymentsFor(Last.pre, Prev.body.paymentIntentId)
           = PaymentsFor(Prev.pre, Prev.body.paymentIntentId) + 1

\* C18: the retry after such a failure succeeds and ends in the state one
\* successful call would have reached: exactly one payment record for the
\* payment id, and the student enrolled (once)
C18_RetryAfterPartialFailure ==
    RetriedAfterPartialFailure =>
        /\ Last.code = 200
        /\ PaymentsFor(Store, Last.body.paymentIntentId) = 1
        /\ EnrolledTimes(Store, Last.body.classId, Last.body.studentUid) = 1
        /\ Store = Handle(Prev.pre, Prev.op, Prev.body).S

C18_Witness ==
    /\ RetriedAfterPartialFailure
    /\ Last.message = "Enrollment completed successfully"
    /\ PaymentsFor(Prev.pre, Prev.body.paymentIntentId) = 0
    /\ EnrolledTimes(Last.pre, Last.body.classId, Last.body.studentUid) = 0


(* C19 *)

\* C19: under any interleaving of the enrollment routes with
\* PATCH /classes/:id, a step that adds a uid to the enrolledStudents of a
\* class finds the class approved
C19_EnrollOnlyWhileApproved ==
    [][\A c \in ClassIds, u \in Uids :
          (/\ Includes(classes'[c].enrolledStudents, u)
           /\ ~Includes(classes[c].enrolledStudents, u))
              => classes[c].status = "approved"]_vars


(* C20 *)

\* C20: in every reachable state, also while POST /users requests with the
\* same uid interleave, the users collection holds at most one document
\* for a uid
C20_UidUnique == \A u \in Uids : UsersWith(Store, u) <= 1


---------------------------------------------------------------------------
(* C21 *)

\* the last call was a POST /process-enrollment with every field present,
\* for a student who was in the class's enrolledStudents when it was made
AlreadyEnrolledCase ==
    /\ Called("POST /process-enrollment")
    /\ Last.body.paymentIntentId # NoVal /\ Last.body.amount # NoNum
    /\ Last.body.studentUid # NoVal
    /\ Last.body.classId \in ClassIds
    /\ Includes(Last.pre.classes[Last.body.classId].enrolledStudents,
                Last.body.studentUid)

AlreadyEnrolled == "Student is already enrolled in this class"

\* C21 as stated: when the student is already enrolled, the call returns
\* success whatever the payment id, and leaves the payments collection and
\* the class document unchanged.
C21_EnrolledAlwaysSuccess ==
    AlreadyEnrolledCase =>
        /\ Last.code = 200
        /\ Store = Last.pre

\* C21 amended: when the student is already enrolled, the call changes
\* nothing in the store; it returns success (already enrolled) when the
\* provider reports the payment as succeeded and the class is approved,
\* and otherwise fails with 400: with the payment error, which is checked
\* first, or with not-available for a class that is no longer approved.
C21_EnrolledNoChange ==
    AlreadyEnrolledCase =>
        /\ Store = Last.pre
        /\ IF Last.body.paymentIntentId \notin DOMAIN paymentIntents
           THEN Last.code = 400 /\ Last.message = "Unable to verify payment"
           ELSE IF paymentIntents[Last.body.paymentIntentId] # "succeeded"
           THEN Last.code = 400 /\ Last.message = "Payment was not successful"
           ELSE IF Last.pre.classes[Last.body.classId].status # "approved"
           THEN Last.code = 400 /\ Last.message = NotAvailable
           ELSE Last.code = 200 /\ Last.message = AlreadyEnrolled

\* an enrolled student repeated the call with a succeeded payment id that
\* no payment record carries, and got the already-enrolled success
C21_Witness ==
    /\ AlreadyEnrolledCase
    /\ Last.message = AlreadyEnrolled
    /\ PaymentsFor(Last.pre, Last.body.paymentIntentId) = 0
    /\ Store = Last.pre


---------------------------------------------------------------------------
(* C22 *)

\* a completed payment record of student u for class c
PaidFor(S, c, u) ==
    \E d \in BagToSet(S.payments) :
        d.classId = c /\ d.studentUid = u /\ d.status = "completed"

\* C22: in every reachable state, every uid in the enrolledStudents of a
\* class has a completed payment record of that student for that class
C22_EnrolledHavePaid ==
    \A c \in ClassIds, u \in Uids :
        Includes(classes[c].enrolledStudents, u) => PaidFor(Store, c, u)


---------------------------------------------------------------------------
(* C23 *)

\* the store operation of request p in this step ends the request with a
\* success response
RespondsSuccess(p) ==
    /\ ~Free(p)
    /\ reqs'[p] = Idle
    /\ Step(Store, reqs[p]).r.code \in {200, 201}

\* C23: when POST /process-enrollment or POST /payments answers with
\* success, the student is in the enrolledStudents of the class at the
\* time of the response, whatever was handled in between
C23_SuccessMeansEnrolled ==
    [][\A p \in Procs :
          RespondsSuccess(p) =>
              Includes(FindOneClass([classes |-> classes'], reqs[p].body.classId)
                           .enrolledStudents,
                       reqs[p].body.studentUid)]_vars


---------------------------------------------------------------------------
(* C24 *)

\* the handler of PATCH /teacher-applications/:id was called
Reviewed == Len(hist.log) = 1 /\ Last.op = "PATCH /teacher-applications/:id" /\ Last.next

\* a store with the status of application id left out of the comparison
ButStatus(S, id) ==
    IF id \in DOMAIN S.applications
    THEN [S EXCEPT !.applications[id].status = NoVal]
    ELSE S

\* some user document has another role after the step
RoleChanges ==
    \E d \in BagToSet(users), e \in BagToSet(users') :
        d.uid = e.uid /\ d.role # e.role /\ users' # users

\* C24: PATCH /teacher-applications/:id changes nothing but the status of
\* the one application it matches, so the users collection is unchanged;
\* a role changes only in a PATCH /users/:uid; and the status of an
\* application that has been reviewed never is pending again
C24_ReviewChangesStatusOnly ==
    /\ [](Reviewed =>
            /\ ButStatus(Store, Last.body.id) = ButStatus(Last.pre, Last.body.id)
            /\ users = Last.pre.users
            /\ Last.code # 200 => Store = Last.pre)
    /\ [][/\ RoleChanges => hist'.log[1].op = "PATCH /users/:uid"
          /\ \A i \in DOMAIN applications :
                applications[i].status # "pending"
                    => applications'[i].status # "pending"]_vars

\* the application of a registered student was approved, and the
\* student's role is still student
C24_Witness ==
    /\ Reviewed
    /\ Last.code = 200 /\ Last.body.status = "approved"
    /\ Last.pre.applications[Last.body.id].status = "pending"
    /\ applications[Last.body.id].status = "approved"
    /\ \E d \in BagToSet(users) :
          d.uid = applications[Last.body.id].uid /\ d.role = "student"

=============================================================================
